---- MODULE Spec2Model ----
(***************************************************************************)
(* Chunking -> retrieval -> grounding pipeline of the RAG backend.         *)
(*                                                                         *)
(* Texts are sequences of one-character strings.  Similarity scores and    *)
(* thresholds are integers in hundredths (70 stands for 0.70).             *)
(***************************************************************************)
EXTENDS Integers, Sequences, FiniteSets, TLC

VARIABLES
    (* services/chunking_service.py : one call of ChunkingService.chunk_text *)
    pc,          \* "idle" | "running" | "done"
    text,        \* the text being chunked (after the heading was prepended)
    stack,       \* call stack of _recursive_split / _force_split frames
    result,      \* the list returned by chunk_text
    heading,     \* the preserve_heading argument of the call
    (* services/chunking.py : one call of ChunkingService.chunk_content *)
    hpc,         \* "idle" | "done"
    content,     \* the markdown content, a sequence of lines
    sections,    \* the value of _split_by_headings(content)
    all_chunks,  \* the list returned by chunk_content
    (* the vector index as one query sees it, and the retrieve operations *)
    index,       \* the points of the collection, best score first
    ret,         \* the last retrieve/search call: its arguments and its outcome
    (* GeminiRAGService.process_query *)
    run,         \* one query going through the pipeline
    (* confidence and citation functions applied to a candidate list *)
    cands,       \* the retrieved candidates, best score first
    app,         \* the last function applied to them: its name, references and value
    (* RAGService.query_textbook *)
    tb,          \* one query going through the Cohere pipeline
    (* scripts/ingest_book.py : ingest_file *)
    db,          \* the rows of the chunks table of the relational store
    qdrant,      \* the points of the vector collection
    ing,         \* the ingest_file call under way, or the last one
    (* utils/retry.py : one call of an operation wrapped by a retry decorator *)
    rt,          \* the call: its input, its attempts and the upstream calls it made
    (* the lazily-initialized accessors called by concurrent tasks of one event loop *)
    singleton,   \* the module-level global of each accessor, None or an instance
    constructed, \* how many instances each accessor has constructed
    task,        \* each task: the accessor it calls and what the call returned
    closer,      \* close_qdrant_client: idle, closing (suspended in close) or closed
    (* IngestionService.ingest_textbook *)
    job          \* the IngestionJob of the call under way, with the position of the call

chunkVars == <<pc, text, stack, result, heading>>

headVars == <<hpc, content, sections, all_chunks>>

retrVars == <<ret>>

queryVars == <<run>>

funcVars == <<app>>

textbookVars == <<tb>>

ingestVars == <<db, qdrant, ing>>

retryVars == <<rt>>

lazyVars == <<singleton, constructed, task, closer>>

jobVars == <<job>>

vars ==
    <<pc, text, stack, result, heading, hpc, content, sections, all_chunks, index, ret, run,
      cands, app, tb, db, qdrant, ing,
      rt,
      singleton, constructed, task, closer,
      job>>

----------------------------------------------------------------------------
(* Bounds of the model *)

MinChunkSize == 3       \* min_chunk_size handed to ChunkingService.__init__
MaxChunkSize == 5       \* max_chunk_size handed to ChunkingService.__init__
ChunkOverlap == 2       \* chunk_overlap handed to ChunkingService.__init__
MaxWords == 3           \* an input text is MaxWords words, each followed by a separator
MaxForceChunks == 3     \* chunks a _force_split loop may collect before the model stops following it
MaxLines == 4           \* lines of a markdown content
HMaxChunkSize == 100    \* max_chunk_size (in words) handed to chunking.ChunkingService.__init__
HOverlapSize == 20      \* overlap_size (in words) handed to chunking.ChunkingService.__init__
MaxPoints == 3          \* points in the vector index
MaxCandidates == 6      \* candidates handed to a confidence or citation function
MaxShared == 3          \* leading candidates that may share a locator, chapter, file or anchor
MaxRefs == 2            \* references the generator returns with an answer
MaxFileChunks == 2      \* chunks that chunk_content makes of one file
MaxPointIds == 4        \* point ids (uuid4 values) drawn by the ingestion
MaxTexts == 2           \* texts in one list given to an embedding operation
MaxTasks == 3           \* tasks that call an accessor concurrently
MaxBlankCandidates == 3 \* candidates of a list whose text or title may be blank
MaxUrls == 2            \* page URLs of the sitemap
MaxPageChunks == 2      \* chunks that chunk_text makes of one page

----------------------------------------------------------------------------
(* Python string helpers *)

Whitespace == {" ", "\n"}

Min2(a, b) == IF a < b THEN a ELSE b

Max2(a, b) == IF a > b THEN a ELSE b

\* index normalisation of a Python slice bound
SliceBound(x, n) == IF x < 0 THEN Max2(n + x, 0) ELSE Min2(x, n)

\* s[a:b]
PySlice(s, a, b) ==
    LET lo == SliceBound(a, Len(s))
        hi == SliceBound(b, Len(s))
    IN  IF lo < hi THEN SubSeq(s, lo + 1, hi) ELSE <<>>

RECURSIVE LStrip(_)
LStrip(s) == IF s # <<>> /\ Head(s) \in Whitespace THEN LStrip(Tail(s)) ELSE s

RECURSIVE RStrip(_)
RStrip(s) ==
    IF s # <<>> /\ s[Len(s)] \in Whitespace THEN RStrip(SubSeq(s, 1, Len(s) - 1)) ELSE s

\* str.strip()
Strip(s) == RStrip(LStrip(s))

StartsWith(s, d) == Len(d) <= Len(s) /\ SubSeq(s, 1, Len(d)) = d

\* str.split(d): the pieces between the non-overlapping occurrences of d, left to right
RECURSIVE SplitFrom(_, _, _)
SplitFrom(s, d, piece) ==
    IF s = <<>> THEN <<piece>>
    ELSE IF StartsWith(s, d)
         THEN <<piece>> \o SplitFrom(SubSeq(s, Len(d) + 1, Len(s)), d, <<>>)
         ELSE SplitFrom(Tail(s), d, Append(piece, Head(s)))

Split(s, d) == SplitFrom(s, d, <<>>)

RECURSIVE Concat(_)
Concat(ss) == IF ss = <<>> THEN <<>> ELSE Head(ss) \o Concat(Tail(ss))

----------------------------------------------------------------------------
(* services/chunking_service.py *)

DELIMITERS == << <<"\n", "\n">>, <<"\n">>, <<".", " ">>, <<",", " ">>, <<" ">> >>

\* _get_overlap without the cut to the last chunk_overlap characters
GetOverlapWholeChunk(chunk) == chunk

\* _get_overlap
GetOverlap(chunk) ==
    IF Len(chunk) <= ChunkOverlap THEN chunk
    ELSE PySlice(chunk, 0 - ChunkOverlap, Len(chunk))

NoText == <<>>

Frame(fn, t, di) ==
    [fn |-> fn, text |-> t, di |-> di, at |-> "entry",
     splits |-> <<>>, i |-> 0, chunks |-> <<>>, cur |-> NoText,
     start |-> 0, end |-> 0]

Top == stack[Len(stack)]

SetTop(f) == [stack EXCEPT ![Len(stack)] = f]

Push(caller, callee) == Append(SetTop(caller), callee)

\* the inputs: MaxWords words, each followed by a separator
Words == {<<>>, <<"a">>, <<"b", "b">>}

Separators == {<<>>, <<" ">>, <<"\n">>, <<".", " ">>, <<",", " ">>, <<"\n", "\n">>}

Headings == {<<>>, <<"a">>}

RECURSIVE Interleave(_, _, _)
Interleave(ws, ss, k) ==
    IF k > MaxWords THEN <<>> ELSE ws[k] \o ss[k] \o Interleave(ws, ss, k + 1)

\* chunk_text, lines 81-88: the empty text returns [], otherwise the heading is
\* prepended and _recursive_split(text) is called
ChunkText(t, preserve_heading) ==
    /\ pc = "idle"
    /\ heading' = preserve_heading
    /\ IF t = <<>>
       THEN /\ pc' = "done"
            /\ text' = t
            /\ result' = <<>>
            /\ stack' = <<>>
       ELSE LET full == IF preserve_heading # <<>>
                        THEN preserve_heading \o <<"\n", "\n">> \o t
                        ELSE t
            IN  /\ pc' = "running"
                /\ text' = full
                /\ stack' = <<Frame("rs", full, 0)>>
                /\ result' = <<>>

\* _recursive_split, lines 112-131: the base cases, the choice of the delimiter
RecursiveSplitEnter ==
    /\ pc = "running"
    /\ Top.fn = "rs" /\ Top.at = "entry"
    /\ LET f == Top
           n == Len(f.text)
       IN  IF n <= MaxChunkSize /\ (n >= MinChunkSize \/ f.di >= Len(DELIMITERS))
           THEN stack' = SetTop([f EXCEPT !.at = "return",
                                   !.chunks = IF Strip(f.text) # <<>>
                                              THEN <<Strip(f.text)>> ELSE <<>>])
           ELSE IF f.di >= Len(DELIMITERS)
           THEN stack' = Push([f EXCEPT !.at = "tail"],
                              [Frame("fs", f.text, f.di) EXCEPT !.at = "loop"])
           ELSE LET splits == Split(f.text, DELIMITERS[f.di + 1])
                IN  IF Len(splits) = 1
                    THEN stack' = Push([f EXCEPT !.at = "tail"],
                                       Frame("rs", f.text, f.di + 1))
                    ELSE stack' = SetTop([f EXCEPT !.at = "loop", !.splits = splits,
                                            !.i = 0, !.chunks = <<>>, !.cur = NoText])
    /\ UNCHANGED <<pc, text, result, heading>>

\* _recursive_split, lines 133-168: one pass of the merge loop, or, past the
\* last split, the remaining chunk and the filtered return value
RecursiveSplitLoop ==
    /\ pc = "running"
    /\ Top.fn = "rs" /\ Top.at = "loop"
    /\ LET f == Top
           delimiter == DELIMITERS[f.di + 1]
       IN  IF f.i < Len(f.splits)
           THEN LET split == f.splits[f.i + 1]
                    split_with_delimiter ==
                        split \o (IF f.i < Len(f.splits) - 1 THEN delimiter ELSE <<>>)
                    potential_chunk == f.cur \o split_with_delimiter
                IN  IF Len(potential_chunk) <= MaxChunkSize
                    THEN stack' = SetTop([f EXCEPT !.cur = potential_chunk, !.i = f.i + 1])
                    ELSE IF f.cur # <<>> /\ Len(f.cur) >= MinChunkSize
                    THEN stack' = SetTop([f EXCEPT
                                     !.chunks = Append(f.chunks, Strip(f.cur)),
                                     !.cur = GetOverlap(f.cur) \o split_with_delimiter,
                                     !.i = f.i + 1])
                    ELSE IF f.cur # <<>>
                    THEN stack' = Push([f EXCEPT !.at = "small"],
                                       Frame("rs", potential_chunk, f.di + 1))
                    ELSE stack' = Push([f EXCEPT !.at = "big"],
                                       Frame("rs", split_with_delimiter, f.di + 1))
           ELSE LET all == IF f.cur # <<>> /\ Len(Strip(f.cur)) > 0
                           THEN Append(f.chunks, Strip(f.cur))
                           ELSE f.chunks
                IN  stack' = SetTop([f EXCEPT !.at = "return",
                                        !.chunks = SelectSeq(all, LAMBDA c : c # <<>>)])
    /\ UNCHANGED <<pc, text, result, heading>>

\* _force_split, lines 183-192: one evaluation of the while condition and, when
\* it holds, one pass of the body
ForceSplitLoop ==
    /\ pc = "running"
    /\ Top.fn = "fs" /\ Top.at = "loop"
    /\ Len(Top.chunks) < MaxForceChunks
    /\ LET f == Top
       IN  IF f.start < Len(f.text)
           THEN LET end == Min2(f.start + MaxChunkSize, Len(f.text))
                    chunk == Strip(PySlice(f.text, f.start, end))
                IN  stack' = SetTop([f EXCEPT
                                 !.chunks = IF chunk # <<>> THEN Append(f.chunks, chunk)
                                            ELSE f.chunks,
                                 !.end = end,
                                 !.start = end - ChunkOverlap])
           ELSE stack' = SetTop([f EXCEPT !.at = "return"])
    /\ UNCHANGED <<pc, text, result, heading>>

\* a call returns: chunk_text gets its list (line 88), `return self._...(...)`
\* passes the value on (lines 119, 127), the merge loop extends its chunks with
\* the sub-chunks (lines 150-155 and 158-162)
Return ==
    /\ pc = "running"
    /\ Top.at = "return"
    /\ LET value == Top.chunks
           rest == SubSeq(stack, 1, Len(stack) - 1)
       IN  IF rest = <<>>
           THEN /\ pc' = "done"
                /\ result' = value
                /\ stack' = <<>>
           ELSE LET caller == rest[Len(rest)]
                    resumed ==
                        CASE caller.at = "tail" ->
                                 [caller EXCEPT !.at = "return", !.chunks = value]
                          [] caller.at = "small" ->
                                 [caller EXCEPT !.at = "loop",
                                                !.chunks = caller.chunks \o value,
                                                !.cur = NoText,
                                                !.i = caller.i + 1]
                          [] caller.at = "big" ->
                                 [caller EXCEPT !.at = "loop",
                                                !.chunks = caller.chunks \o value,
                                                !.i = caller.i + 1]
                IN  /\ stack' = [rest EXCEPT ![Len(rest)] = resumed]
                    /\ UNCHANGED <<pc, result>>
    /\ UNCHANGED <<text, heading>>

----------------------------------------------------------------------------
(* The vector index (Qdrant) and the retrieve operations:                  *)
(* services/retrieval.py, clients/qdrant_client.py,                        *)
(* agents/retrieval_agent.py, services/qdrant_service.py                   *)

None == <<>>

Some(v) == <<v>>

\* Python truthiness of an optional number
Truthy(opt) == opt # None /\ opt[1] # 0

\* Python truthiness of an optional string
TruthyStr(opt) == opt # None /\ opt[1] # ""

\* the payload stored with point id
FilePathOf(id) == IF id % 2 = 1 THEN "a.md" ELSE "b.md"

ChapterOf(id) == IF id % 3 = 0 THEN "" ELSE "Chapter"

SourceUrlOf(id) == IF id <= 2 THEN "/docs/intro" ELSE "/docs/more"

Payload(id) ==
    [chunk_id |-> id, file_path |-> FilePathOf(id), chapter |-> ChapterOf(id),
     source_url |-> SourceUrlOf(id)]

\* cosine similarities of the points to the query, in hundredths
Scores == {-20, 50, 70, 90}

PointIds == 1..MaxPoints

Hit(id, score) == [id |-> id, score |-> score]

\* the collections: distinct points, listed best score first
Indexes ==
    UNION {{h \in [1..n -> {Hit(id, sc) : id \in PointIds, sc \in Scores}] :
               /\ \A i, j \in 1..n : i < j => h[i].id # h[j].id
               /\ \A i \in 1..(n - 1) : h[i].score >= h[i + 1].score}
           : n \in 0..MaxPoints}

\* client.query_points(query, limit, score_threshold, query_filter): the best
\* limit points that reach the threshold and match the filter, when given
QueryPoints(idx, limit, score_threshold, query_filter) ==
    PySlice(SelectSeq(idx, LAMBDA h :
                /\ score_threshold = None \/ h.score >= score_threshold[1]
                /\ query_filter = None \/ FilePathOf(h.id) = query_filter[1]),
            0, limit)

\* retrieval.py lines 135-150 with enumerate(..., start=0)
ToRetrievedChunksFromZero(points) ==
    [r \in 1..Len(points) |->
        [chunk_id |-> Payload(points[r].id).chunk_id,
         file_path |-> Payload(points[r].id).file_path,
         chapter |-> Payload(points[r].id).chapter,
         source_url |-> Payload(points[r].id).source_url,
         similarity_score |-> points[r].score,
         rank |-> r - 1]]

\* retrieval.py lines 135-150: the hits as RetrievedChunk objects
ToRetrievedChunks(points) ==
    [r \in 1..Len(points) |->
        [chunk_id |-> Payload(points[r].id).chunk_id,
         file_path |-> Payload(points[r].id).file_path,
         chapter |-> Payload(points[r].id).chapter,
         source_url |-> Payload(points[r].id).source_url,
         similarity_score |-> points[r].score,
         rank |-> r]]

\* tenacity stop_after_attempt(3): calls made when the first `failures` calls fail
MAX_ATTEMPTS == 3

Attempts(failures) == Min2(failures + 1, MAX_ATTEMPTS)

Outcome(error, chunks, embed_calls, index_calls) ==
    [error |-> error, chunks |-> chunks,
     embed_calls |-> embed_calls, index_calls |-> index_calls]

\* A query text is given by its length and the length of query.strip().
\* RetrievalService.retrieve
Retrieve(idx, query, top_k, score_threshold, file_path_filter, embed_failures, search_ok) ==
    IF query.len = 0 \/ query.stripped = 0 THEN Outcome("ValueError", <<>>, 0, 0)
    ELSE IF ~(1 <= top_k /\ top_k <= 10) THEN Outcome("ValueError", <<>>, 0, 0)
    ELSE IF ~(0 <= score_threshold /\ score_threshold <= 100)
    THEN Outcome("ValueError", <<>>, 0, 0)
    ELSE IF embed_failures >= MAX_ATTEMPTS
    THEN Outcome("Exception", <<>>, Attempts(embed_failures), 0)
    ELSE IF ~search_ok
    THEN Outcome("Exception", <<>>, Attempts(embed_failures), 1)
    ELSE Outcome("", ToRetrievedChunks(
                         QueryPoints(idx, top_k, Some(score_threshold), None)),
                 Attempts(embed_failures), 1)

\* retrieve_with_reranking, lines 197-201
Rerank(chunks, top_k) ==
    LET reranked == PySlice(chunks, 0, top_k)
    IN  [r \in 1..Len(reranked) |-> [reranked[r] EXCEPT !.rank = r]]

\* RetrievalService.retrieve_with_reranking
RetrieveWithReranking(idx, query, top_k, initial_k, score_threshold, embed_failures, search_ok) ==
    LET first == Retrieve(idx, query, initial_k, score_threshold, None,
                          embed_failures, search_ok)
    IN  IF first.error # "" THEN first
        ELSE [first EXCEPT !.chunks = Rerank(first.chunks, top_k)]

\* clients/qdrant_client.py search_similar_chunks
SearchSimilarChunks(idx, top_k, score_threshold, file_path_filter, search_ok) ==
    LET query_filter == IF TruthyStr(file_path_filter) THEN file_path_filter ELSE None
        points == QueryPoints(idx, top_k, Some(score_threshold), query_filter)
    IN  IF ~search_ok THEN Outcome("Exception", <<>>, 0, 1)
        ELSE Outcome("", [r \in 1..Len(points) |->
                             [chunk_id |-> Payload(points[r].id).chunk_id,
                              file_path |-> Payload(points[r].id).file_path,
                              chapter |-> Payload(points[r].id).chapter,
                              source_url |-> Payload(points[r].id).source_url,
                              similarity_score |-> points[r].score]],
                     0, 1)

\* config/settings.py
RETRIEVAL_TOP_K == 5

RETRIEVAL_SCORE_THRESHOLD == 70

\* RetrievalAgent.retrieve, lines 63-64: the arguments it hands to the search
SearchArguments(top_k, score_threshold) ==
    [top_k |-> IF Truthy(top_k) THEN top_k[1] ELSE RETRIEVAL_TOP_K,
     score_threshold |-> IF Truthy(score_threshold) THEN score_threshold[1]
                         ELSE RETRIEVAL_SCORE_THRESHOLD]

\* RetrievalAgent.retrieve
AgentRetrieve(idx, top_k, score_threshold, file_path_filter, embed_failures, search_ok) ==
    LET args == SearchArguments(top_k, score_threshold)
    IN  IF embed_failures >= MAX_ATTEMPTS
        THEN Outcome("Exception", <<>>, Attempts(embed_failures), 0)
        ELSE [SearchSimilarChunks(idx, args.top_k, args.score_threshold,
                                  file_path_filter, search_ok)
                 EXCEPT !.embed_calls = Attempts(embed_failures)]

\* QdrantService.search under @retry_qdrant(max_attempts=3)
QdrantSearch(idx, limit, score_threshold, failures) ==
    LET actual_score_threshold ==
            IF score_threshold > 0 THEN Some(score_threshold) ELSE None
        points == QueryPoints(idx, limit, actual_score_threshold, None)
    IN  IF failures >= MAX_ATTEMPTS
        THEN Outcome("QdrantConnectionError", <<>>, 0, Attempts(failures))
        ELSE Outcome("", [r \in 1..Len(points) |->
                             [id |-> points[r].id, score |-> points[r].score,
                              payload |-> Payload(points[r].id)]],
                     0, Attempts(failures))

\* the arguments of the calls
TopKs == {0, 1, 2, 11}

InitialKs == {2, 20}

Thresholds == {-10, 0, 70, 110}

Filters == {None, Some("a.md"), Some("b.md")}

Failures == {0, 1, 3}

QueryLengths == {0, 2, 3, 1000, 1001}

Queries ==
    {q \in [len : QueryLengths, stripped : {0, 1} \cup QueryLengths] :
        q.stripped <= q.len}

ShortQueries == {q \in Queries : q.len <= 3 /\ q.stripped \in {0, q.len}}

Call(op, query, top_k, initial_k, score_threshold, file_path_filter, out) ==
    [op |-> op, query |-> query, top_k |-> top_k, initial_k |-> initial_k,
     score_threshold |-> score_threshold, file_path_filter |-> file_path_filter,
     out |-> out]

NoQuery == [len |-> 0, stripped |-> 0]

NoCall == Call("", NoQuery, None, None, None, None, Outcome("", <<>>, 0, 0))

DoRetrieve ==
    \E q \in ShortQueries, k \in TopKs, t \in Thresholds, f \in Filters,
       ef \in {0, 3}, ok \in BOOLEAN :
        ret' = Call("retrieve", q, Some(k), None, Some(t), f,
                    Retrieve(index, q, k, t, f, ef, ok))

DoRetrieveWithReranking ==
    \E q \in ShortQueries, k \in TopKs \cup {-1}, ik \in InitialKs, t \in Thresholds,
       ef \in {0, 3}, ok \in BOOLEAN :
        ret' = Call("retrieve_with_reranking", q, Some(k), Some(ik), Some(t), None,
                    RetrieveWithReranking(index, q, k, ik, t, ef, ok))

DoSearchSimilarChunks ==
    \E k \in TopKs \ {0}, t \in Thresholds, f \in Filters, ok \in BOOLEAN :
        ret' = Call("search_similar_chunks", NoQuery, Some(k), None, Some(t), f,
                    SearchSimilarChunks(index, k, t, f, ok))

DoAgentRetrieve ==
    \E k \in {None, Some(0), Some(2)}, t \in {None, Some(0), Some(50)}, f \in Filters,
       ef \in {0, 3}, ok \in BOOLEAN :
        ret' = Call("agent_retrieve", NoQuery, k, None, t, f,
                    AgentRetrieve(index, k, t, f, ef, ok))

DoQdrantSearch ==
    \E k \in TopKs \ {0}, t \in Thresholds, fl \in Failures :
        ret' = Call("qdrant_search", NoQuery, Some(k), None, Some(t), None,
                    QdrantSearch(index, k, t, fl))

RetrInit == ret = NoCall

\* The operations keep no state between calls and leave the collection alone,
\* so a behaviour is one collection and one call.
RetrNext ==
    /\ ret.op = ""
    /\ UNCHANGED index
    /\ \/ DoRetrieve
       \/ DoRetrieveWithReranking
       \/ DoSearchSimilarChunks
       \/ DoAgentRetrieve
       \/ DoQdrantSearch

----------------------------------------------------------------------------
(* The query pipeline: services/gemini_rag_service.py, services/retrieval.py *)
(* calculate_confidence, services/generation.py                             *)

RECURSIVE SumScores(_)
SumScores(chunks) ==
    IF chunks = <<>> THEN 0
    ELSE chunks[1].similarity_score + SumScores(Tail(chunks))

\* A confidence is an integer number of ConfidenceUnit-ths, which holds
\* 0.6 * top + 0.3 * sum / n + 0.1 * min(n / 5, 1) exactly for n up to 10.
ConfidenceUnit == 2520000

\* RetrievalService.calculate_confidence
CalculateConfidence(chunks) ==
    IF chunks = <<>> THEN 0
    ELSE LET n == Len(chunks)
             confidence == 6 * 2520 * chunks[1].similarity_score
                           + 3 * (2520 \div n) * SumScores(chunks)
                           + 50400 * Min2(n, 5)
         IN  Min2(confidence, ConfidenceUnit)

RECURSIVE InsertByRelevance(_, _)
\* list.sort(key=relevance_score, reverse=True) is stable: c goes after
\* the citations that are at least as relevant
InsertByRelevance(sorted, c) ==
    IF sorted = <<>> THEN <<c>>
    ELSE IF sorted[1].relevance_score >= c.relevance_score
    THEN <<sorted[1]>> \o InsertByRelevance(Tail(sorted), c)
    ELSE <<c>> \o sorted

RECURSIVE SortByRelevance(_)
SortByRelevance(cs) ==
    IF cs = <<>> THEN <<>>
    ELSE InsertByRelevance(SortByRelevance(PySlice(cs, 0, Len(cs) - 1)), cs[Len(cs)])

SourceKey(chunk) == <<chunk.chapter, chunk.source_url>>

RECURSIVE Citations(_, _)
\* the loop of _extract_sources over the chunks left, given the keys seen
Citations(chunks, seen_sources) ==
    IF chunks = <<>> THEN <<>>
    ELSE IF SourceKey(chunks[1]) \in seen_sources
    THEN Citations(Tail(chunks), seen_sources)
    ELSE <<[chapter |-> IF chunks[1].chapter = "" THEN "Unknown Chapter"
                        ELSE chunks[1].chapter,
            source_url |-> chunks[1].source_url,
            relevance_score |-> chunks[1].similarity_score]>>
         \o Citations(Tail(chunks), seen_sources \cup {SourceKey(chunks[1])})

MAX_SOURCES == 5

\* GenerationService._extract_sources
ExtractSources(chunks) ==
    PySlice(SortByRelevance(Citations(chunks, {})), 0, MAX_SOURCES)

LOW_CONFIDENCE == 1260000   \* 0.5 in ConfidenceUnit-ths

Generated(error, answer, sources, generator_calls) ==
    [error |-> error, answer |-> answer, sources |-> sources,
     generator_calls |-> generator_calls]

\* GenerationService.generate under @retry(stop_after_attempt(3)), when the
\* first `failures` calls of the model fail
Generate(query, chunks, confidence, failures) ==
    IF query.len = 0 \/ query.stripped = 0
    THEN Generated("ValueError", "", <<>>, 0)
    ELSE IF confidence < LOW_CONFIDENCE \/ chunks = <<>>
    THEN Generated("", "not enough information", <<>>, 0)
    ELSE IF failures >= MAX_ATTEMPTS
    THEN Generated("Exception", "", <<>>, Attempts(failures))
    ELSE Generated("", "model answer", ExtractSources(chunks), Attempts(failures))

MIN_QUERY_LENGTH == 3

MAX_QUERY_LENGTH == 1000

Run(at, query, top_k, score_threshold) ==
    [pc |-> at, query |-> query, top_k |-> top_k, score_threshold |-> score_threshold,
     error |-> "", chunks |-> <<>>, confidence |-> 0, answer |-> "", sources |-> <<>>,
     embedder_calls |-> 0, index_calls |-> 0, generator_calls |-> 0]

\* process_query, step 1: the call and the validation of the query
ProcessQuery(query_text, top_k, score_threshold) ==
    /\ run.pc = "idle"
    /\ run' = IF query_text.len = 0 \/ query_text.stripped = 0
              THEN [Run("raised", query_text, top_k, score_threshold)
                       EXCEPT !.error = "ValueError"]
              ELSE IF query_text.len < MIN_QUERY_LENGTH
              THEN [Run("raised", query_text, top_k, score_threshold)
                       EXCEPT !.error = "ValueError"]
              ELSE IF query_text.len > MAX_QUERY_LENGTH
              THEN [Run("raised", query_text, top_k, score_threshold)
                       EXCEPT !.error = "ValueError"]
              ELSE Run("retrieve", query_text, top_k, score_threshold)

\* process_query, steps 2 and 3: retrieve and calculate_confidence
RetrieveStep ==
    /\ run.pc = "retrieve"
    /\ \E embed_failures \in Failures, search_ok \in BOOLEAN :
         LET out == Retrieve(index, run.query, run.top_k, run.score_threshold, None,
                             embed_failures, search_ok)
         IN  run' = IF out.error # ""
                    THEN [run EXCEPT !.pc = "raised", !.error = out.error,
                                     !.embedder_calls = out.embed_calls,
                                     !.index_calls = out.index_calls]
                    ELSE [run EXCEPT !.pc = "generate", !.chunks = out.chunks,
                                     !.confidence = CalculateConfidence(out.chunks),
                                     !.embedder_calls = out.embed_calls,
                                     !.index_calls = out.index_calls]

\* process_query, steps 4 and 5: generate and build the result
GenerateStep ==
    /\ run.pc = "generate"
    /\ \E failures \in Failures :
         LET g == Generate(run.query, run.chunks, run.confidence, failures)
         IN  run' = IF g.error # ""
                    THEN [run EXCEPT !.pc = "raised", !.error = g.error,
                                     !.generator_calls = g.generator_calls]
                    ELSE [run EXCEPT !.pc = "returned", !.answer = g.answer,
                                     !.sources = g.sources,
                                     !.generator_calls = g.generator_calls]

QueryInit == run = Run("idle", NoQuery, 0, 0)

QueryNext ==
    /\ UNCHANGED index
    /\ \/ /\ run.pc = "idle"
          /\ \E q \in Queries, k \in TopKs, t \in Thresholds : ProcessQuery(q, k, t)
       \/ RetrieveStep
       \/ GenerateStep

----------------------------------------------------------------------------
(* Citations: services/rag_service.py extract_citations,                   *)
(* services/generation.py _extract_sources, agents/citation_agent.py       *)

Url(i) == <<"/docs/page", i>>

FilePath(i) == <<"page", i, ".md">>

Anchor(i) == <<"section", i>>

\* how candidate i relates to candidate 1
Kinds == {"own", "same", "chapter", "anchor"}

\* One retrieved candidate with the metadata the three resolvers read.  Its
\* chunk text and its title are not blank.
Candidate(i, kind, score) ==
    [chunk_id |-> i, content_text |-> <<"t">>, page_title |-> <<"T">>,
     source_url |-> IF kind \in {"same", "chapter"} THEN Url(1) ELSE Url(i),
     chapter |-> IF kind = "chapter" THEN "" ELSE "Chapter",
     file_path |-> IF kind \in {"same", "chapter"} THEN FilePath(1) ELSE FilePath(i),
     section_anchor |-> IF kind \in {"same", "anchor"} THEN Anchor(1) ELSE Anchor(i),
     similarity_score |-> score]

CandidateScores == {-20, 50, 90}

\* the title a citation gets when the title of its chunk is blank
UNTITLED == <<"U", "n", "t", "i", "t", "l", "e", "d">>

\* the candidate lists: scores do not increase, candidate 1 and the
\* candidates after MaxShared are of kind "own"
CandidateLists ==
    UNION {{[i \in 1..n |-> Candidate(i, ks[i], sc[i])] :
               ks \in {k \in [1..n -> Kinds] :
                          \A i \in 1..n : (i = 1 \/ i > MaxShared) => k[i] = "own"},
               sc \in {c \in [1..n -> CandidateScores] :
                          \A i \in 1..(n - 1) : c[i] >= c[i + 1]}}
           : n \in 0..MaxCandidates}

\* A reference of the generator is given by its document_ids: "none" (no
\* document_ids, or an empty list), "doc" ('doc_<idx>'), "int" (the integer
\* idx), "bad" ('doc_x', not a number) or "type" (a first id that is neither a
\* string nor a number, such as None)
Ref(kind, idx) == [kind |-> kind, idx |-> idx]

Refs ==
    {Ref("none", 0), Ref("bad", 0), Ref("type", 0), Ref("int", 1)}
    \cup {Ref("doc", i) : i \in {0, 1, 2, MaxCandidates + 3}}

RefLists == UNION {[1..n -> Refs] : n \in 0..MaxRefs}

\* score_lookup.get(chunk.chunk_id, 0.0) over the search results
ScoreLookup(search_results, chunk_id) ==
    IF \E i \in 1..Len(search_results) : search_results[i].chunk_id = chunk_id
    THEN search_results[CHOOSE i \in 1..Len(search_results) :
                            /\ search_results[i].chunk_id = chunk_id
                            /\ \A j \in (i + 1)..Len(search_results) :
                                  search_results[j].chunk_id # chunk_id].similarity_score
    ELSE 0

SourceCitation(chunk, search_results) ==
    [page_url |-> chunk.source_url, page_title |-> chunk.page_title,
     relevance_score |-> ScoreLookup(search_results, chunk.chunk_id)]

CitationUrls(citations) == {citations[i].page_url : i \in 1..Len(citations)}

RECURSIVE FromReferences(_, _, _, _)
Extracted(error, citations) == [error |-> error, citations |-> citations]

\* extract_citations, the loop over the references left, given the citations
\* made so far; TypeError when int() is handed a value it cannot convert
FromReferences(refs, chunks, search_results, citations) ==
    IF refs = <<>> THEN Extracted("", citations)
    ELSE LET r == refs[1]
             rest == Tail(refs)
         IN  IF r.kind = "none" THEN FromReferences(rest, chunks, search_results, citations)
             ELSE IF r.kind = "bad"
             THEN FromReferences(rest, chunks, search_results, citations)
             ELSE IF r.kind = "type" THEN Extracted("TypeError", <<>>)
             ELSE IF ~(r.idx + 1 \in 1..Len(chunks))
             THEN FromReferences(rest, chunks, search_results, citations)
             ELSE IF chunks[r.idx + 1].source_url \in CitationUrls(citations)
             THEN FromReferences(rest, chunks, search_results, citations)
             ELSE FromReferences(rest, chunks, search_results,
                      Append(citations, SourceCitation(chunks[r.idx + 1], search_results)))

\* the Field constraints of models.query_session.SourceCitation
ValidCitation(citation) ==
    /\ Len(citation.page_title) >= 1
    /\ 0 <= citation.relevance_score /\ citation.relevance_score <= 100

RECURSIVE FromChunks(_, _, _, _)
\* extract_citations, the fallback loop over the chunks left: the URL is marked
\* as seen, then a blank text is skipped, a blank title replaced, and a
\* citation the model rejects is skipped by the except branch
FromChunks(chunks, search_results, citations, seen_urls) ==
    IF chunks = <<>> THEN citations
    ELSE LET chunk == chunks[1]
             seen == seen_urls \cup {chunk.source_url}
             page_title == IF chunk.page_title # <<>> /\ Strip(chunk.page_title) # <<>>
                           THEN chunk.page_title ELSE UNTITLED
             citation == [SourceCitation(chunk, search_results)
                              EXCEPT !.page_title = page_title]
         IN  IF chunk.source_url \in seen_urls
             THEN FromChunks(Tail(chunks), search_results, citations, seen_urls)
             ELSE IF chunk.content_text = <<>> \/ Strip(chunk.content_text) = <<>>
             THEN FromChunks(Tail(chunks), search_results, citations, seen)
             ELSE IF ~ValidCitation(citation)
             THEN FromChunks(Tail(chunks), search_results, citations, seen)
             ELSE FromChunks(Tail(chunks), search_results, Append(citations, citation), seen)

\* extract_citations taking the fallback branch whatever the references are
ExtractCitationsFromAllChunks(chunks, cohere_citations, search_results) ==
    Extracted("", FromChunks(chunks, search_results, <<>>, {}))

\* RAGService.extract_citations
ExtractCitations(chunks, cohere_citations, search_results) ==
    IF cohere_citations # <<>>
    THEN FromReferences(cohere_citations, chunks, search_results, <<>>)
    ELSE Extracted("", FromChunks(chunks, search_results, <<>>, {}))

\* docusaurus_anchors.build_citation_url with base_path "/docs"
BuildCitationUrl(file_path, anchor) ==
    <<"/docs", PySlice(file_path, 0, 2), anchor>>

RECURSIVE AgentCitations(_, _)
\* CitationAgent.generate_citations, the loop over the chunks left
AgentCitations(source_chunks, seen_anchors) ==
    IF source_chunks = <<>> THEN <<>>
    ELSE IF source_chunks[1].section_anchor \in seen_anchors
    THEN AgentCitations(Tail(source_chunks), seen_anchors)
    ELSE <<[anchor |-> source_chunks[1].section_anchor,
            url |-> BuildCitationUrl(source_chunks[1].file_path,
                                     source_chunks[1].section_anchor)]>>
         \o AgentCitations(Tail(source_chunks),
                           seen_anchors \cup {source_chunks[1].section_anchor})

\* CitationAgent.generate_citations
GenerateCitations(source_chunks) == AgentCitations(source_chunks, {})

Applied(op, refs, error, out) == [op |-> op, refs |-> refs, error |-> error, out |-> out]

DoCalculateConfidence ==
    app' = Applied("calculate_confidence", <<>>, "", CalculateConfidence(cands))

DoExtractSources ==
    app' = Applied("extract_sources", <<>>, "", ExtractSources(cands))

DoExtractCitations ==
    \E refs \in RefLists :
        LET extracted == ExtractCitations(cands, refs, cands)
        IN  app' = Applied("extract_citations", refs, extracted.error, extracted.citations)

DoGenerateCitations ==
    app' = Applied("generate_citations", <<>>, "", GenerateCitations(cands))

FuncInit == app = Applied("", <<>>, "", <<>>)

\* The functions are pure: a behaviour is one candidate list and one application.
FuncNext ==
    /\ app.op = ""
    /\ UNCHANGED cands
    /\ \/ DoCalculateConfidence
       \/ DoExtractSources
       \/ DoExtractCitations
       \/ DoGenerateCitations

----------------------------------------------------------------------------
(* services/rag_service.py : RAGService.query_textbook *)

NOT_FOUND_MESSAGE == "I could not find this information in the textbook."

\* RAGService._results_to_chunks, each chunk keeping the score of its result
ResultsToChunks(search_results) ==
    [i \in 1..Len(search_results) |->
        [chunk_id |-> search_results[i].payload.chunk_id,
         content_text |-> <<"t">>, page_title |-> <<"T">>,
         source_url |-> search_results[i].payload.source_url,
         similarity_score |-> search_results[i].score]]

Session(at, query_text, max_results, score_threshold) ==
    [pc |-> at, query |-> query_text, max_results |-> max_results,
     score_threshold |-> score_threshold, retrieved_chunks |-> <<>>, refs |-> <<>>,
     generated_response |-> "", source_citations |-> <<>>, error |-> "",
     embedder_calls |-> 0, index_calls |-> 0, generator_calls |-> 0]

\* the except branch of query_textbook: the error session
ErrorSession(error) ==
    [tb EXCEPT !.pc = "returned", !.error = error, !.retrieved_chunks = <<>>,
               !.generated_response = "", !.source_citations = <<>>]

TextbookQueries == {q \in ShortQueries : q.len \in {0, 3}}

\* a call succeeds at once or fails at every attempt
TextbookFailures == {0, MAX_ATTEMPTS}

MaxResults == {2, 5}

QueryTextbook(query_text, max_results, score_threshold) ==
    /\ tb.pc = "idle"
    /\ tb' = Session("embed", query_text, max_results, score_threshold)

\* step 1: cohere_service.embed under @retry_cohere(max_attempts=3)
TextbookEmbed ==
    /\ tb.pc = "embed"
    /\ \E failures \in TextbookFailures :
         tb' = IF failures >= MAX_ATTEMPTS
               THEN [ErrorSession("CohereAPIError")
                        EXCEPT !.embedder_calls = Attempts(failures)]
               ELSE [tb EXCEPT !.pc = "search", !.embedder_calls = Attempts(failures)]

\* step 2: qdrant_service.search, and the answer when nothing was found
TextbookSearch ==
    /\ tb.pc = "search"
    /\ \E failures \in TextbookFailures :
         LET out == QdrantSearch(index, tb.max_results, tb.score_threshold, failures)
         IN  tb' = IF out.error # ""
                   THEN [ErrorSession(out.error) EXCEPT !.index_calls = out.index_calls]
                   ELSE IF out.chunks = <<>>
                   THEN [tb EXCEPT !.pc = "returned", !.index_calls = out.index_calls,
                                   !.generated_response = NOT_FOUND_MESSAGE]
                   ELSE [tb EXCEPT !.pc = "generate", !.index_calls = out.index_calls,
                                   !.retrieved_chunks = ResultsToChunks(out.chunks)]

\* step 3: generate_answer, cohere_service.generate under @retry_cohere; the
\* model answers with any list of references
TextbookGenerate ==
    /\ tb.pc = "generate"
    /\ \E failures \in TextbookFailures, refs \in RefLists :
         tb' = IF tb.query.len = 0 THEN ErrorSession("CohereAPIError")
               ELSE IF failures >= MAX_ATTEMPTS
               THEN [ErrorSession("CohereAPIError")
                        EXCEPT !.generator_calls = Attempts(failures)]
               ELSE [tb EXCEPT !.pc = "cite", !.generator_calls = Attempts(failures),
                               !.generated_response = "model answer", !.refs = refs]

\* step 4: extract_citations and the session returned
TextbookCite ==
    /\ tb.pc = "cite"
    /\ LET extracted == ExtractCitations(tb.retrieved_chunks, tb.refs, tb.retrieved_chunks)
       IN  tb' = IF extracted.error # "" THEN ErrorSession(extracted.error)
                 ELSE [tb EXCEPT !.pc = "returned",
                                 !.source_citations = extracted.citations]

TextbookInit == tb = Session("idle", NoQuery, 0, 0)

TextbookNext ==
    /\ UNCHANGED index
    /\ \/ /\ tb.pc = "idle"
          /\ \E q \in TextbookQueries, k \in MaxResults, t \in {0, 70} :
                QueryTextbook(q, k, t)
       \/ TextbookEmbed
       \/ TextbookSearch
       \/ TextbookGenerate
       \/ TextbookCite

----------------------------------------------------------------------------
(* scripts/ingest_book.py : ingest_file, called for one file after another *)

Files == {"docs/a.md", "docs/b.md"}

\* a row of the chunks table, and the payload of a point, for one chunk
StoredChunk(file_path, point_id, chunk_index) ==
    [file_path |-> file_path, point_id |-> point_id, chunk_index |-> chunk_index]

OfFile(store, file_path) == {c \in store : c.file_path = file_path}

Ingest(at, file_path, force, n, next_id) ==
    [pc |-> at, file_path |-> file_path, force |-> force, n |-> n, i |-> 0,
     points |-> <<>>, next_id |-> next_id, returned |-> 0]

\* lines 115-122: the call, the file is read; a blank file is skipped
IngestFile(file_path, force, blank, n) ==
    /\ ing.pc \in {"idle", "returned", "raised"}
    /\ ing.next_id + n <= MaxPointIds + 1
    /\ ing' = Ingest(IF blank THEN "returned" ELSE "check", file_path, force, n, ing.next_id)
    /\ UNCHANGED <<db, qdrant>>

\* lines 134-162: the check of a file already indexed, the deletion of its
\* rows when forced, and chunk_content, which gives n chunks
IngestCheck ==
    /\ ing.pc = "check"
    /\ IF ~ing.force /\ OfFile(db, ing.file_path) # {}
       THEN ing' = [ing EXCEPT !.pc = "returned"] /\ UNCHANGED db
       ELSE /\ db' = IF ing.force THEN db \ OfFile(db, ing.file_path) ELSE db
            /\ ing' = [ing EXCEPT !.pc = IF ing.n = 0 THEN "returned" ELSE "embed"]
    /\ UNCHANGED qdrant

\* lines 166-177: embed_batch returns the embeddings or raises
IngestEmbed ==
    /\ ing.pc = "embed"
    /\ \E ok \in BOOLEAN :
         ing' = [ing EXCEPT !.pc = IF ok THEN "insert" ELSE "raised"]
    /\ UNCHANGED <<db, qdrant>>

\* lines 184-222: one pass of the loop: a point with a fresh id is prepared
\* and the row is inserted, or the insert raises
IngestInsert ==
    /\ ing.pc = "insert"
    /\ LET point == StoredChunk(ing.file_path, ing.next_id, ing.i)
       IN  \E ok \in BOOLEAN :
             IF ok
             THEN /\ db' = db \cup {point}
                  /\ ing' = [ing EXCEPT !.points = Append(@, point),
                                        !.next_id = @ + 1, !.i = @ + 1,
                                        !.pc = IF ing.i + 1 = ing.n THEN "upsert"
                                               ELSE "insert"]
             ELSE /\ ing' = [ing EXCEPT !.points = Append(@, point),
                                        !.next_id = @ + 1, !.pc = "raised"]
                  /\ UNCHANGED db
    /\ UNCHANGED qdrant

\* lines 224-236: the points are upserted and the number of chunks is
\* returned, or the upsert raises
IngestUpsert ==
    /\ ing.pc = "upsert"
    /\ \E ok \in BOOLEAN :
         IF ok
         THEN /\ qdrant' = qdrant \cup {ing.points[k] : k \in 1..Len(ing.points)}
              /\ ing' = [ing EXCEPT !.pc = "returned", !.returned = ing.n]
         ELSE /\ ing' = [ing EXCEPT !.pc = "raised"]
              /\ UNCHANGED qdrant
    /\ UNCHANGED db

IngestInit ==
    /\ db = {}
    /\ qdrant = {}
    /\ ing = Ingest("idle", "", FALSE, 0, 1)

IngestNext ==
    \/ \E f \in Files, force \in BOOLEAN, n \in 0..MaxFileChunks :
          IngestFile(f, force, FALSE, n)
    \/ \E f \in Files, force \in BOOLEAN : IngestFile(f, force, TRUE, 0)
    \/ IngestCheck
    \/ IngestEmbed
    \/ IngestInsert
    \/ IngestUpsert

----------------------------------------------------------------------------
(* Properties of ChunkingService.chunk_text (services/chunking_service.py) *)

Returned == pc = "done"

\* s without its whitespace characters
NonWs(s) == SelectSeq(s, LAMBDA c : c \notin Whitespace)

Suffix(s, k) == SubSeq(s, Len(s) - k + 1, Len(s))

Prefix(s, k) == SubSeq(s, 1, k)

\* C1: every chunk returned by chunk_text has a length within
\* [min_chunk_size, max_chunk_size], except possibly the last chunk, which may
\* be shorter but never longer.
C1_ChunkLengthsInBand ==
    Returned =>
        \A i \in 1..Len(result) :
            /\ Len(result[i]) <= MaxChunkSize
            /\ i < Len(result) => Len(result[i]) >= MinChunkSize

ForceSplitFrames == {k \in 1..Len(stack) : stack[k].fn = "fs" /\ stack[k].at = "loop"}

\* C2: chunk_text terminates for every text: once the window of the forced
\* split has reached the end of the text (end = len(text)) the while loop is
\* left, so the loop head is never reached again with the text already covered.
C2_ForceSplitStopsAtEnd ==
    \A k \in ForceSplitFrames :
        stack[k].end = Len(stack[k].text) => ~(stack[k].start < Len(stack[k].text))

\* the later chunk begins with the last k <= chunk_overlap characters of the
\* earlier chunk, for some k >= 1
SharesOverlap(a, b) ==
    \E k \in 1..ChunkOverlap :
        /\ k <= Len(a) /\ k <= Len(b)
        /\ Suffix(a, k) = Prefix(b, k)

\* the chunk a stands in t right before chunk_overlap whitespace characters: the
\* overlap tail of the closed chunk was blank and stripping removed it
BlankOverlap(t, a) ==
    \E p \in 0..(Len(t) - Len(a) - ChunkOverlap) :
        /\ SubSeq(t, p + 1, p + Len(a)) = a
        /\ \A q \in 1..ChunkOverlap : t[p + Len(a) + q] \in Whitespace

\* C3: for every pair of consecutive chunks returned by chunk_text the later
\* chunk begins with the overlap tail of the earlier chunk, a suffix of at most
\* chunk_overlap characters, up to whitespace stripping.
C3_ConsecutiveChunksOverlap ==
    Returned =>
        \A i \in 1..(Len(result) - 1) :
            \/ SharesOverlap(result[i], result[i + 1])
            \/ BlankOverlap(text, result[i])

\* the chunks cs rebuild the text rest when from each of them a leading region
\* of at most chunk_overlap characters that repeats the end of the chunk
\* before it (prev) is removed; whitespace is ignored throughout
RECURSIVE Rebuilds(_, _, _)
Rebuilds(cs, prev, rest) ==
    IF cs = <<>> THEN rest = <<>>
    ELSE LET c == NonWs(Head(cs))
         IN  \E k \in 0..Min2(ChunkOverlap, Min2(Len(c), Len(prev))) :
                 /\ Prefix(c, k) = Suffix(prev, k)
                 /\ StartsWith(rest, SubSeq(c, k + 1, Len(c)))
                 /\ Rebuilds(Tail(cs), c, SubSeq(rest, Len(c) - k + 1, Len(rest)))

\* C4: removing from each returned chunk after the first its leading overlap
\* region and concatenating the remainders yields the text handed to
\* _recursive_split up to whitespace: no character is lost, none is duplicated.
C4_ChunksRebuildText ==
    Returned => Rebuilds(result, <<>>, NonWs(text))

\* a returned list of three chunks that rebuilds the text only when overlap
\* regions are removed
C4_Witness ==
    /\ Returned
    /\ Len(result) >= 3
    /\ Rebuilds(result, <<>>, NonWs(text))
    /\ NonWs(Concat(result)) # NonWs(text)

----------------------------------------------------------------------------
(* services/chunking.py *)

MIN_CHUNK_WORDS == 50

\* A line of markdown is given by what heading_pattern and str.split() see of
\* it: level is the number of # of a line that matches ^(#{1,6})\s+(.+)$ and 0
\* for any other line, title is the stripped group 2, words the number of
\* whitespace-separated words of the line.
HeadingLine(level, title) == [level |-> level, title |-> title, words |-> 2]

BodyLine(words) == [level |-> 0, title |-> "", words |-> words]

Titles == {"A", "B"}

BodyWords == {0, 5, 60, 130}

Lines ==
    {HeadingLine(l, t) : l \in 1..6, t \in Titles} \cup {BodyLine(w) : w \in BodyWords}

RECURSIVE WordCount(_)
WordCount(ls) == IF ls = <<>> THEN 0 ELSE Head(ls).words + WordCount(Tail(ls))

\* the loop of _split_by_headings with a heading path that forgets the ancestors
RECURSIVE SplitLinesNoAncestors(_, _, _, _, _)
SplitLinesNoAncestors(ls, k, secs, current_section, current_headings) ==
    IF k > Len(ls)
    THEN [sections |-> secs, current_section |-> current_section]
    ELSE LET line == ls[k]
         IN  IF line.level > 0
             THEN LET saved == IF current_section.words > 0
                               THEN Append(secs, current_section) ELSE secs
                      headings == <<line.title>>
                  IN  SplitLinesNoAncestors(ls, k + 1, saved,
                                 [words |-> line.words, heading_path |-> headings],
                                 headings)
             ELSE SplitLinesNoAncestors(ls, k + 1, secs,
                             [current_section EXCEPT !.words = @ + line.words],
                             current_headings)

\* _split_by_headings, lines 150-170: the loop over the lines from line k on;
\* a section is its word count and its heading path
RECURSIVE SplitLines(_, _, _, _, _)
SplitLines(ls, k, secs, current_section, current_headings) ==
    IF k > Len(ls)
    THEN [sections |-> secs, current_section |-> current_section]
    ELSE LET line == ls[k]
         IN  IF line.level > 0
             THEN LET saved == IF current_section.words > 0
                               THEN Append(secs, current_section) ELSE secs
                      headings == PySlice(current_headings, 0, line.level - 1)
                                      \o <<line.title>>
                  IN  SplitLines(ls, k + 1, saved,
                                 [words |-> line.words, heading_path |-> headings],
                                 headings)
             ELSE SplitLines(ls, k + 1, secs,
                             [current_section EXCEPT !.words = @ + line.words],
                             current_headings)

\* _split_by_headings
SplitByHeadings(ls) ==
    LET r == SplitLines(ls, 1, <<>>, [words |-> 0, heading_path |-> <<>>], <<>>)
        secs == IF r.current_section.words > 0
                THEN Append(r.sections, r.current_section) ELSE r.sections
    IN  IF secs # <<>> THEN secs
        ELSE <<[words |-> WordCount(ls), heading_path |-> <<>>]>>

\* ContentChunk: the words [first, last) of its section
ContentChunk(first, last, heading_path, chunk_index) ==
    [first |-> first, last |-> last, heading_path |-> heading_path,
     chunk_index |-> chunk_index, total_chunks |-> 1]

\* _chunk_section, lines 209-235: the while loop from start_idx on
RECURSIVE ChunkWindows(_, _, _, _, _)
ChunkWindows(word_count, heading_path, start_idx, chunk_index, chunks) ==
    IF ~(start_idx < word_count) THEN chunks
    ELSE LET end_idx == Min2(start_idx + HMaxChunkSize, word_count)
             kept == end_idx - start_idx >= MIN_CHUNK_WORDS
             chunks2 == IF kept
                        THEN Append(chunks, ContentChunk(start_idx, end_idx,
                                                         heading_path, chunk_index))
                        ELSE chunks
             next_idx == start_idx + (HMaxChunkSize - HOverlapSize)
         IN  IF next_idx >= word_count THEN chunks2
             ELSE ChunkWindows(word_count, heading_path, next_idx,
                               IF kept THEN chunk_index + 1 ELSE chunk_index, chunks2)

\* _chunk_section
ChunkSection(section) ==
    IF section.words <= HMaxChunkSize
    THEN IF section.words >= MIN_CHUNK_WORDS
         THEN <<ContentChunk(0, section.words, section.heading_path, 0)>>
         ELSE <<>>
    ELSE ChunkWindows(section.words, section.heading_path, 0, 0, <<>>)

RECURSIVE ChunkSections(_)
ChunkSections(secs) ==
    IF secs = <<>> THEN <<>> ELSE ChunkSection(Head(secs)) \o ChunkSections(Tail(secs))

\* chunk_content
ChunkContent(ls) ==
    /\ hpc = "idle"
    /\ hpc' = "done"
    /\ content' = ls
    /\ IF WordCount(ls) = 0
       THEN /\ sections' = <<>>
            /\ all_chunks' = <<>>
       ELSE LET secs == SplitByHeadings(ls)
                chunks == ChunkSections(secs)
                total == Len(chunks)
            IN  /\ sections' = secs
                /\ all_chunks' = [i \in 1..total |->
                                     [chunks[i] EXCEPT !.total_chunks = total]]

HeadInit ==
    /\ hpc = "idle"
    /\ content = <<>>
    /\ sections = <<>>
    /\ all_chunks = <<>>

HeadNext ==
    /\ hpc = "idle"
    /\ \E n \in 0..MaxLines : \E ls \in [1..n -> Lines] : ChunkContent(ls)

----------------------------------------------------------------------------
(* Properties of ChunkingService.chunk_content (services/chunking.py) *)

\* the heading of line p is still in scope at the heading of line j: it is of a
\* lower level and no heading between them is of its level or of a lower one
InScope(ls, p, j) ==
    /\ ls[p].level > 0
    /\ ls[p].level < ls[j].level
    /\ \A q \in (p + 1)..(j - 1) : ls[q].level = 0 \/ ls[q].level > ls[p].level

\* the headings in scope at line j, from line p on, then the heading of line j
RECURSIVE ScopePath(_, _, _)
ScopePath(ls, p, j) ==
    IF p >= j THEN <<ls[j].title>>
    ELSE (IF InScope(ls, p, j) THEN <<ls[p].title>> ELSE <<>>) \o ScopePath(ls, p + 1, j)

RECURSIVE HeadingPaths(_, _)
HeadingPaths(ls, j) ==
    IF j > Len(ls) THEN <<>>
    ELSE (IF ls[j].level > 0 THEN <<ScopePath(ls, 1, j)>> ELSE <<>>)
             \o HeadingPaths(ls, j + 1)

PathsOf(secs) == [i \in 1..Len(secs) |-> secs[i].heading_path]

\* C5: the heading path of the section opened by a heading of level N is the
\* most recent heading of each level below N that is still in scope, followed
\* by the heading's own text, for headings of levels 1..6 in any order.
C5_HeadingPathFollowsLevels ==
    hpc = "done" =>
        PathsOf(SelectSeq(sections, LAMBDA sec : sec.heading_path # <<>>))
            = HeadingPaths(content, 1)

\* a level-1 heading, one paragraph, a level-2 heading, one paragraph, and size
\* bounds that hold each section
TwoSectionDocument ==
    /\ hpc = "done"
    /\ Len(content) = 4
    /\ content[1].level = 1 /\ content[3].level = 2
    /\ content[2].level = 0 /\ content[2].words > 0
    /\ content[4].level = 0 /\ content[4].words > 0
    /\ content[1].words + content[2].words <= HMaxChunkSize
    /\ content[3].words + content[4].words <= HMaxChunkSize

TwoChunksTaggedAAndAB ==
    /\ Len(all_chunks) = 2
    /\ all_chunks[1].heading_path = <<content[1].title>>
    /\ all_chunks[2].heading_path = <<content[1].title, content[3].title>>

\* C6 as stated: a level-1 heading A with one short paragraph and a level-2
\* heading B with one short paragraph, under size bounds that hold each
\* section, give exactly two chunks, tagged [A] and [A, B].
C6_ShortSectionsGiveTwoChunks ==
    TwoSectionDocument => TwoChunksTaggedAAndAB

\* C6 as amended: the same document gives exactly two chunks, tagged [A] and
\* [A, B], when each section has at least MIN_CHUNK_WORDS words.
C6_ViableSectionsGiveTwoChunks ==
    (/\ TwoSectionDocument
     /\ content[1].words + content[2].words >= MIN_CHUNK_WORDS
     /\ content[3].words + content[4].words >= MIN_CHUNK_WORDS)
        => TwoChunksTaggedAAndAB

C6_Witness ==
    /\ TwoSectionDocument
    /\ content[1].words + content[2].words >= MIN_CHUNK_WORDS
    /\ content[3].words + content[4].words >= MIN_CHUNK_WORDS
    /\ TwoChunksTaggedAAndAB
    /\ content[1].title # content[3].title

----------------------------------------------------------------------------
(* Properties of the query pipeline and of the retrieve operations *)

InvalidQuery(q) ==
    \/ q.len = 0
    \/ q.stripped = 0
    \/ q.stripped < MIN_QUERY_LENGTH
    \/ q.len > MAX_QUERY_LENGTH

\* C7: process_query rejects with a validation error every query that is
\* empty, whitespace-only, shorter than 3 characters after trimming or longer
\* than 1000 characters, and for such a query no call of the embedder, of the
\* vector index or of the generator is made.
C7_InvalidQueryRejectedWithoutCalls ==
    (run.pc # "idle" /\ InvalidQuery(run.query)) =>
        /\ run.embedder_calls = 0 /\ run.index_calls = 0 /\ run.generator_calls = 0
        /\ run.pc \in {"raised", "returned"} =>
              (run.pc = "raised" /\ run.error = "ValueError")

Succeeded(ops) == ret.op \in ops /\ ret.out.error = ""

\* C8: when a file_path_filter is passed to RetrievalService.retrieve or to
\* RetrievalAgent.retrieve, every returned candidate has file_path equal to
\* the filter value.
C8_FilterRestrictsResults ==
    (Succeeded({"retrieve", "agent_retrieve"}) /\ ret.file_path_filter # None) =>
        \A i \in 1..Len(ret.out.chunks) :
            ret.out.chunks[i].file_path = ret.file_path_filter[1]

\* C9: in every sequence returned by RetrievalService.retrieve or
\* retrieve_with_reranking the ranks are 1, 2, ..., n in sequence order and
\* the similarity scores do not increase with the rank.
C9_RanksCountFromOneScoresDescend ==
    Succeeded({"retrieve", "retrieve_with_reranking"}) =>
        /\ \A i \in 1..Len(ret.out.chunks) : ret.out.chunks[i].rank = i
        /\ \A i \in 1..(Len(ret.out.chunks) - 1) :
              ret.out.chunks[i].similarity_score >= ret.out.chunks[i + 1].similarity_score

\* a reranking call that cut a longer list down to two chunks of different scores
C9_Witness ==
    /\ Succeeded({"retrieve_with_reranking"})
    /\ Len(ret.out.chunks) = 2
    /\ Len(index) > 2
    /\ ret.out.chunks[1].similarity_score > ret.out.chunks[2].similarity_score
    /\ ret.out.chunks[2].rank = 2

ScoreOf(op, hit) == IF op = "qdrant_search" THEN hit.score ELSE hit.similarity_score

\* C10: for every score_threshold t from 0.0 through 1.0, every candidate
\* returned by QdrantService.search, search_similar_chunks or
\* RetrievalService.retrieve has a similarity score of at least t.
C10_ScoresReachThreshold ==
    (/\ Succeeded({"qdrant_search", "search_similar_chunks", "retrieve"})
     /\ 0 <= ret.score_threshold[1] /\ ret.score_threshold[1] <= 100) =>
        \A i \in 1..Len(ret.out.chunks) :
            ScoreOf(ret.op, ret.out.chunks[i]) >= ret.score_threshold[1]

\* the pool that the first stage of a reranking call asks the index for
InitialPool ==
    QueryPoints(index, ret.initial_k[1], ret.score_threshold, None)

\* C11: retrieve_with_reranking with initial_k > top_k (the default
\* initial_k = 20 included) retrieves a pool of up to initial_k candidates and
\* returns the first min(top_k, pool size) of them, with ranks 1, 2, ...
C11_RerankingReturnsTopOfPool ==
    (/\ ret.op = "retrieve_with_reranking"
     /\ ret.query.stripped > 0
     /\ 0 <= ret.score_threshold[1] /\ ret.score_threshold[1] <= 100
     /\ 1 <= ret.top_k[1] /\ ret.top_k[1] < ret.initial_k[1]
     /\ ret.out.error # "Exception") =>
        /\ ret.out.error = ""
        /\ Len(ret.out.chunks) = Min2(ret.top_k[1], Len(InitialPool))
        /\ \A i \in 1..Len(ret.out.chunks) :
              /\ ret.out.chunks[i].chunk_id = InitialPool[i].id
              /\ ret.out.chunks[i].rank = i

\* 0.6 * top_score + 0.3 * mean(scores) + 0.1 * min(count / 5, 1), in
\* ConfidenceUnit-ths, of a non-empty list
WeightedScore(chunks) ==
    6 * 2520 * chunks[1].similarity_score
    + 3 * (2520 \div Len(chunks)) * SumScores(chunks)
    + 50400 * Min2(Len(chunks), 5)

\* C12: for a non-empty candidate list with scores in [-1, 1],
\* calculate_confidence returns the weighted score clamped to [0, 1]: never
\* below 0 and never above 1.
C12_ConfidenceClampedToUnitInterval ==
    (app.op = "calculate_confidence" /\ cands # <<>>) =>
        /\ app.out = Max2(0, Min2(ConfidenceUnit, WeightedScore(cands)))
        /\ 0 <= app.out /\ app.out <= ConfidenceUnit

\* no point of the collection reaches the threshold t
NoneClears(t) == \A i \in 1..Len(index) : index[i].score < t

\* process_query was called with arguments that pass its validation and that
\* of retrieve, the threshold is cleared by no candidate, no service failed
QueryFindsNothing ==
    /\ run.pc # "idle"
    /\ run.query.stripped > 0
    /\ MIN_QUERY_LENGTH <= run.query.len /\ run.query.len <= MAX_QUERY_LENGTH
    /\ 1 <= run.top_k /\ run.top_k <= 10
    /\ 0 <= run.score_threshold /\ run.score_threshold <= 100
    /\ NoneClears(run.score_threshold)
    /\ run.error # "Exception"

TextbookFindsNothing ==
    /\ tb.pc # "idle"
    /\ NoneClears(tb.score_threshold)
    /\ tb.error = ""

\* C13: when no candidate clears the score threshold, retrieval returns the
\* empty sequence without raising, the confidence is 0, and the pipeline
\* returns the fixed not-enough-information answer with no citation and
\* without invoking the generator model, in process_query and in
\* query_textbook.
C13_NothingFoundAnswersWithoutGenerator ==
    /\ QueryFindsNothing =>
          /\ run.error = "" /\ run.generator_calls = 0
          /\ run.chunks = <<>> /\ run.confidence = 0
          /\ run.pc = "returned" =>
                (run.answer = "not enough information" /\ run.sources = <<>>)
    /\ TextbookFindsNothing =>
          /\ tb.generator_calls = 0
          /\ tb.pc \in {"embed", "search", "returned"}
          /\ tb.retrieved_chunks = <<>>
          /\ tb.pc = "returned" =>
                (tb.generated_response = NOT_FOUND_MESSAGE /\ tb.source_citations = <<>>)

\* the locator URL of a citation made by the function op
Locator(op, citation) ==
    IF op = "extract_citations" THEN citation.page_url
    ELSE IF op = "extract_sources" THEN citation.source_url
    ELSE citation.url

Resolved(ops) == app.op \in ops /\ app.error = ""

\* C14: no two citations of a resolved citation list share the same locator
\* URL, for RAGService.extract_citations, GenerationService._extract_sources
\* and CitationAgent.generate_citations.
C14_CitationLocatorsDistinct ==
    Resolved({"extract_citations", "extract_sources", "generate_citations"}) =>
        \A i, j \in 1..Len(app.out) :
            i # j => Locator(app.op, app.out[i]) # Locator(app.op, app.out[j])

DistinctLocators(chunks) ==
    \A i, j \in 1..Len(chunks) : i # j => chunks[i].source_url # chunks[j].source_url

\* every reference names a candidate: 'doc_<idx>' or idx with idx in range
ReferencesResolve(refs, chunks) ==
    \A k \in 1..Len(refs) :
        refs[k].kind \in {"doc", "int"} /\ refs[k].idx + 1 \in 1..Len(chunks)

\* the positions of refs that hold the first reference to their candidate
FirstSeen(refs) ==
    SelectSeq([k \in 1..Len(refs) |-> k],
              LAMBDA k : \A m \in 1..(k - 1) : refs[m].idx # refs[k].idx)

Sharing(url) == {i \in 1..Len(cands) : cands[i].source_url = url}

\* C16: when two candidates share a source locator, the resolver emits exactly
\* one citation for that locator and it carries the higher of the candidates'
\* relevance scores, whatever the order of the candidates or of the references,
\* in RAGService.extract_citations and GenerationService._extract_sources.
C16_SharedLocatorKeepsHigherScore ==
    Resolved({"extract_citations", "extract_sources"}) =>
        \A k \in 1..Len(app.out) :
            LET url == Locator(app.op, app.out[k])
            IN  Cardinality(Sharing(url)) >= 2 =>
                  /\ \A m \in 1..Len(app.out) :
                        Locator(app.op, app.out[m]) = url => m = k
                  /\ \A i \in Sharing(url) :
                        app.out[k].relevance_score >= cands[i].similarity_score

\* the reference r names one of the candidates
ValidReference(r) == r.kind \in {"doc", "int"} /\ r.idx + 1 \in 1..Len(cands)

\* C17: extract_citations never raises, whatever the references are: a
\* reference whose document id is missing, unparseable, of an unexpected type
\* or out of range gives no citation, and every valid reference still has the
\* locator of its candidate cited.
C17_BadReferencesSkippedNotFatal ==
    (app.op = "extract_citations" /\ app.refs # <<>>) =>
        /\ app.error = ""
        /\ \A k \in 1..Len(app.refs) :
              ValidReference(app.refs[k]) =>
                  \E m \in 1..Len(app.out) :
                      app.out[m].page_url = cands[app.refs[k].idx + 1].source_url
        /\ \A m \in 1..Len(app.out) :
              \E k \in 1..Len(app.refs) :
                  /\ ValidReference(app.refs[k])
                  /\ app.out[m].page_url = cands[app.refs[k].idx + 1].source_url

\* C18: when the generator supplies references that cannot be parsed or
\* resolved to a candidate, citation resolution falls back to the citations
\* derived from the retrieved candidates instead of yielding none, and the
\* query returns its answer without an error.
C18_UnresolvedReferencesFallBack ==
    (tb.pc = "returned" /\ tb.refs # <<>>
     /\ \A k \in 1..Len(tb.refs) :
           ~(/\ tb.refs[k].kind \in {"doc", "int"}
             /\ tb.refs[k].idx + 1 \in 1..Len(tb.retrieved_chunks))) =>
        /\ tb.error = ""
        /\ tb.generated_response = "model answer"
        /\ tb.source_citations # <<>>
        /\ tb.source_citations = FromChunks(tb.retrieved_chunks, tb.retrieved_chunks, <<>>, {})

\* C19: a citation list derived from the retrieval ranking has at most 5
\* citations, in order of non-increasing relevance score, and they are the
\* highest-scoring ones left after the deduplication by locator; for
\* _extract_sources and for the fallback path of extract_citations, whatever
\* the number of candidates.
C19_AtMostFiveBestCitations ==
    (Resolved({"extract_sources", "extract_citations"}) /\ app.refs = <<>>) =>
        /\ Len(app.out) <= MAX_SOURCES
        /\ \A k \in 1..(Len(app.out) - 1) :
              app.out[k].relevance_score >= app.out[k + 1].relevance_score
        /\ \A i \in 1..Len(cands) :
              \/ \E k \in 1..Len(app.out) :
                    Locator(app.op, app.out[k]) = cands[i].source_url
              \/ /\ Len(app.out) = MAX_SOURCES
                 /\ \A k \in 1..Len(app.out) :
                       app.out[k].relevance_score >= cands[i].similarity_score

\* the chunks created by the ingest_file call that has just returned
NewChunks == {ing.points[k] : k \in 1..Len(ing.points)}

\* C20: after a file that is already indexed has been re-ingested with
\* force=True and the call has completed, both stores hold only the newly
\* created chunks for that file_path: every chunk of the previous ingestion is
\* gone from the vector index and from the relational store.
C20_ReingestReplacesChunksInBothStores ==
    (ing.pc = "returned" /\ ing.force /\ ing.returned > 0) =>
        /\ OfFile(db, ing.file_path) = NewChunks
        /\ OfFile(qdrant, ing.file_path) = NewChunks

----------------------------------------------------------------------------
(* utils/retry.py and the @retry decorators of the services: tenacity runs the
   body of the wrapped operation, and when the body raises an exception the
   retry predicate accepts and the attempt is not the last one, waits and runs
   the body again; otherwise the exception reaches the caller (reraise=True).
   A text is TRUE when it is not blank. *)

RetriedOps == {"cohere_embed", "qdrant_search", "embed_text", "generate", "embed_batch"}

\* the inputs of an operation: a list of texts, one text, one query, one vector
RetryInputs(op) ==
    CASE op \in {"cohere_embed", "embed_batch"} ->
             UNION {[1..n -> BOOLEAN] : n \in 0..MaxTexts}
      [] op \in {"embed_text", "generate"} -> {<<TRUE>>, <<FALSE>>}
      [] OTHER -> {<<TRUE>>}

\* the check the body makes before it calls upstream
InputRejected(op, texts) ==
    CASE op \in {"cohere_embed", "embed_batch"} -> texts = <<>>
      [] op \in {"embed_text", "generate"} -> ~texts[1]
      [] OTHER -> FALSE

ValidationError(op) == IF op = "cohere_embed" THEN "CohereAPIError" ELSE "ValueError"

\* what the body raises when the upstream call fails
UpstreamError(op) ==
    CASE op = "cohere_embed" -> "CohereAPIError"
      [] op = "qdrant_search" -> "QdrantConnectionError"
      [] OTHER -> "Exception"

\* the retry predicate of the decorator
RetryIf(op, error) ==
    CASE op = "cohere_embed" -> error = "CohereAPIError"
      [] op = "qdrant_search" -> error = "QdrantConnectionError"
      [] OTHER -> TRUE

\* one upstream call per text for embed_batch, one per body otherwise
UpstreamCalls(op, texts) == IF op = "embed_batch" THEN Len(texts) ELSE 1

Retrying(op, texts) ==
    [op |-> op, texts |-> texts, pc |-> "body", attempt |-> 1, executions |-> 0,
     waits |-> 0, i |-> 0, inner_attempt |-> 0,
     calls |-> [k \in 1..UpstreamCalls(op, texts) |-> 0],
     fails |-> [k \in 1..UpstreamCalls(op, texts) |-> 0], error |-> ""]

RetryInit ==
    rt = [op |-> "", texts |-> <<>>, pc |-> "idle", attempt |-> 0, executions |-> 0,
          waits |-> 0, i |-> 0, inner_attempt |-> 0, calls |-> <<>>, fails |-> <<>>,
          error |-> ""]

\* the caller calls the wrapped operation
RetryCall(op, texts) ==
    /\ rt.pc \in {"idle", "returned", "raised"}
    /\ rt' = Retrying(op, texts)

\* the body raised: tenacity waits for another attempt or reraises
Raise(r, error) ==
    IF RetryIf(r.op, error) /\ r.attempt < MAX_ATTEMPTS
    THEN [r EXCEPT !.pc = "wait", !.error = error]
    ELSE [r EXCEPT !.pc = "raised", !.error = error]

\* one execution of the body of embed, search, embed_text or generate
RetryBody ==
    /\ rt.pc = "body"
    /\ rt.op # "embed_batch"
    /\ LET r == [rt EXCEPT !.executions = @ + 1]
       IN  IF InputRejected(rt.op, rt.texts)
           THEN rt' = Raise(r, ValidationError(rt.op))
           ELSE \E ok \in BOOLEAN :
                   LET called == [r EXCEPT !.calls[1] = @ + 1]
                   IN  rt' = IF ok
                             THEN [called EXCEPT !.pc = "returned", !.error = ""]
                             ELSE Raise([called EXCEPT !.fails[1] = @ + 1],
                                        UpstreamError(rt.op))

\* the exponential backoff wait before the next attempt
RetryWait ==
    /\ rt.pc = "wait"
    /\ rt' = [rt EXCEPT !.pc = "body", !.waits = @ + 1, !.attempt = @ + 1]

\* one execution of the body of embed_batch, up to its first embed_text
BatchBody ==
    /\ rt.pc = "body"
    /\ rt.op = "embed_batch"
    /\ LET r == [rt EXCEPT !.executions = @ + 1]
       IN  rt' = IF InputRejected(rt.op, rt.texts)
                 THEN Raise(r, ValidationError(rt.op))
                 ELSE [r EXCEPT !.pc = "inner_body", !.i = 1, !.inner_attempt = 1]

\* embed_text raised inside embed_batch: its own decorator waits or reraises
\* into the body of embed_batch, whose decorator then takes over
InnerRaise(r, error) ==
    IF r.inner_attempt < MAX_ATTEMPTS
    THEN [r EXCEPT !.pc = "inner_wait", !.error = error]
    ELSE Raise(r, error)

\* one execution of the body of embed_text for text i of the batch
InnerBody ==
    /\ rt.pc = "inner_body"
    /\ IF ~rt.texts[rt.i]
       THEN rt' = InnerRaise(rt, "ValueError")
       ELSE \E ok \in BOOLEAN :
               LET called == [rt EXCEPT !.calls[rt.i] = @ + 1]
               IN  rt' = IF ~ok
                         THEN InnerRaise([called EXCEPT !.fails[rt.i] = @ + 1], "Exception")
                         ELSE IF rt.i = Len(rt.texts)
                         THEN [called EXCEPT !.pc = "returned", !.error = ""]
                         ELSE [called EXCEPT !.i = @ + 1, !.inner_attempt = 1]

InnerWait ==
    /\ rt.pc = "inner_wait"
    /\ rt' = [rt EXCEPT !.pc = "inner_body", !.waits = @ + 1, !.inner_attempt = @ + 1]

RetryNext ==
    \/ \E op \in RetriedOps : \E texts \in RetryInputs(op) : RetryCall(op, texts)
    \/ RetryBody
    \/ RetryWait
    \/ BatchBody
    \/ InnerBody
    \/ InnerWait

----------------------------------------------------------------------------
(* Properties of the retried operations *)

\* every upstream call made for input k of the call failed
PersistentlyFailing(k) == rt.calls[k] > 0 /\ rt.fails[k] = rt.calls[k]

\* C21: when the failure of a persistently failing upstream call is raised to
\* the caller, that call was attempted at most 3 times in total; this holds for
\* CohereService.embed, QdrantService.search, embed_text and for each text of
\* one call of embed_batch.
C21_FailingCallAttemptedAtMostThreeTimes ==
    rt.pc = "raised" =>
        \A k \in DOMAIN rt.calls : PersistentlyFailing(k) => rt.calls[k] <= MAX_ATTEMPTS

\* C25: an input the body rejects is reported on the first attempt: the body of
\* embed_text (empty text), generate (empty query) or CohereService.embed (empty
\* list) runs exactly once and there is no backoff wait.
C25_ValidationFailureNotRetried ==
    (/\ rt.pc = "raised"
     /\ rt.op \in {"embed_text", "generate", "cohere_embed"}
     /\ InputRejected(rt.op, rt.texts)) =>
        rt.executions = 1 /\ rt.waits = 0

----------------------------------------------------------------------------
(* The lazily-initialized accessors.  Each is a plain function that tests its
   module-level global and assigns it without awaiting anything; their callers
   are coroutines of one event loop (the route handlers and the scripts), which
   switch only where they await.  One call of an accessor is therefore one
   step.  close_qdrant_client awaits the close of the client between its test
   and its assignment. *)

Accessors ==
    {"get_qdrant_client", "get_openai_client", "get_retrieval_service",
     "get_embedding_service", "get_generation_service"}

Tasks == 1..MaxTasks

\* `if _x is None`
IsNoneAlways(slot) == TRUE

IsNone(slot) == slot = None

Waiting(accessor) == [pc |-> "waiting", accessor |-> accessor, got |-> None]

LazyInit ==
    /\ singleton = [a \in Accessors |-> None]
    /\ constructed = [a \in Accessors |-> 0]
    /\ task = [t \in Tasks |-> [pc |-> "idle", accessor |-> "", got |-> None]]
    /\ closer = "idle"

\* a task is scheduled that will call an accessor when it next runs
Schedule(t, a) ==
    /\ task[t].pc = "idle"
    /\ task' = [task EXCEPT ![t] = Waiting(a)]
    /\ UNCHANGED <<singleton, constructed, closer>>

\* the task runs the accessor: test, construct and assign, return the global
GetInstance(t) ==
    /\ task[t].pc = "waiting"
    /\ LET a == task[t].accessor
           made == IsNone(singleton[a])
           value == IF made THEN Some(constructed[a] + 1) ELSE singleton[a]
       IN  /\ singleton' = [singleton EXCEPT ![a] = value]
           /\ constructed' = [constructed EXCEPT ![a] = IF made THEN @ + 1 ELSE @]
           /\ task' = [task EXCEPT ![t] = [@ EXCEPT !.pc = "holding", !.got = value]]
    /\ UNCHANGED closer

\* close_qdrant_client up to its await
CloseBegin ==
    /\ closer = "idle"
    /\ closer' = IF IsNone(singleton["get_qdrant_client"]) THEN "closed" ELSE "closing"
    /\ UNCHANGED <<singleton, constructed, task>>

\* close_qdrant_client after its await
CloseEnd ==
    /\ closer = "closing"
    /\ singleton' = [singleton EXCEPT !["get_qdrant_client"] = None]
    /\ closer' = "closed"
    /\ UNCHANGED <<constructed, task>>

LazyNext ==
    \/ \E t \in Tasks, a \in Accessors : Schedule(t, a)
    \/ \E t \in Tasks : GetInstance(t)
    \/ CloseBegin
    \/ CloseEnd

----------------------------------------------------------------------------
(* Properties of the accessors *)

Callers(a) == {t \in Tasks : task[t].accessor = a /\ task[t].pc = "holding"}

\* C22: under any interleaving of the tasks that make the first calls of an
\* accessor (the client has not been closed), exactly one instance is
\* constructed and every caller receives that same instance.
C22_OneInstanceForConcurrentFirstCalls ==
    \A a \in Accessors :
        (closer # "closed" /\ Callers(a) # {}) =>
            /\ constructed[a] = 1
            /\ \A t \in Callers(a) : task[t].got = Some(1) /\ singleton[a] = task[t].got

\* every task has called the same accessor and holds its one instance
C22_Witness ==
    \E a \in Accessors :
        /\ Callers(a) = Tasks
        /\ constructed[a] = 1
        /\ \A t \in Tasks : task[t].got = Some(1)

----------------------------------------------------------------------------
(* Properties of the chunk numbering of chunk_content *)

\* C23: the chunk at position i (0-based) of the sequence chunk_content returns
\* has chunk_index = i, its position within the whole document, and every chunk
\* has total_chunks = n, the number of chunks returned.
C23_ChunkIndexIsPositionInDocument ==
    hpc = "done" =>
        \A i \in 1..Len(all_chunks) :
            /\ all_chunks[i].chunk_index = i - 1
            /\ all_chunks[i].total_chunks = Len(all_chunks)

----------------------------------------------------------------------------
(* Properties of the chunkers on blank input *)

\* the text argument of the chunk_text call: text without the prepended heading
InputText ==
    IF heading # <<>> /\ text # <<>> THEN SubSeq(text, Len(heading) + 3, Len(text)) ELSE text

Blank(s) == NonWs(s) = <<>>

\* C24: for empty or whitespace-only input chunk_text (chunking_service) and
\* chunk_content (chunking) return the empty sequence, and no chunk they return
\* is empty or whitespace-only.
C24_BlankInputGivesNoChunks ==
    /\ Returned =>
          /\ Blank(InputText) => result = <<>>
          /\ \A i \in 1..Len(result) : ~Blank(result[i])
    /\ hpc = "done" =>
          /\ WordCount(content) = 0 => all_chunks = <<>>
          /\ \A i \in 1..Len(all_chunks) : all_chunks[i].last > all_chunks[i].first

----------------------------------------------------------------------------
(* The fallback path of RAGService.extract_citations over candidates whose
   text or title may be blank.  DocumentChunk requires min_length=1 of both,
   which a whitespace-only value satisfies. *)

Blanks == {"none", "text", "title"}

Blanked(chunk, blank) ==
    [chunk EXCEPT !.content_text = IF blank = "text" THEN <<" ">> ELSE @,
                  !.page_title = IF blank = "title" THEN <<" ">> ELSE @]

\* scores that SourceCitation accepts
FallbackScores == {50, 90}

\* the candidate lists: scores do not increase, a candidate has its own
\* locator or that of candidate 1
BlankCandidateLists ==
    UNION {{[i \in 1..n |-> Blanked(Candidate(i, ks[i], sc[i]), bs[i])] :
               ks \in {k \in [1..n -> {"own", "same"}] : \A i \in 1..n : i = 1 => k[i] = "own"},
               sc \in {c \in [1..n -> FallbackScores] :
                          \A i \in 1..(n - 1) : c[i] >= c[i + 1]},
               bs \in [1..n -> Blanks]}
           : n \in 0..MaxBlankCandidates}

\* extract_citations called without generator references
DoExtractFallback ==
    LET extracted == ExtractCitations(cands, <<>>, cands)
    IN  app' = Applied("extract_citations", <<>>, extracted.error, extracted.citations)

FallbackNext ==
    /\ app.op = ""
    /\ UNCHANGED cands
    /\ DoExtractFallback

----------------------------------------------------------------------------
(* Properties of the fallback path *)

BlankTextOrTitle(chunk) == Strip(chunk.content_text) = <<>> \/ Strip(chunk.page_title) = <<>>

\* the candidates with text and title, the first of each locator only
RECURSIVE FirstPerLocator(_, _)
FirstPerLocator(chunks, locators) ==
    IF chunks = <<>> THEN <<>>
    ELSE IF BlankTextOrTitle(chunks[1]) \/ chunks[1].source_url \in locators
    THEN FirstPerLocator(Tail(chunks), locators)
    ELSE <<chunks[1]>> \o FirstPerLocator(Tail(chunks), locators \cup {chunks[1].source_url})

\* C26: without generator references the citation list is exactly the
\* retrieved candidates in order, omitting every candidate whose chunk text or
\* title is blank, then deduplicated by locator keeping the first remaining
\* candidate of each locator.
C26_FallbackCitesFirstUsableCandidatePerLocator ==
    (app.op = "extract_citations" /\ app.refs = <<>>) =>
        LET kept == FirstPerLocator(cands, {})
        IN  app.out = [i \in 1..Len(kept) |-> SourceCitation(kept[i], cands)]

----------------------------------------------------------------------------
(* Properties of RetrievalAgent.retrieve *)

\* the caller's argument when it gave one, the settings default otherwise
Provided(argument, default) == IF argument # None THEN argument[1] ELSE default

\* C27: RetrievalAgent.retrieve hands the caller's top_k and score_threshold
\* unchanged to the index search whenever the caller provides them (any value
\* but None, a score_threshold of 0.0 included), and the settings defaults
\* only when the argument is omitted.
C27_AgentForwardsProvidedArguments ==
    (ret.op = "agent_retrieve" /\ ret.out.index_calls > 0) =>
        LET args == SearchArguments(ret.top_k, ret.score_threshold)
            top_k == Provided(ret.top_k, RETRIEVAL_TOP_K)
            score_threshold == Provided(ret.score_threshold, RETRIEVAL_SCORE_THRESHOLD)
        IN  /\ args.top_k = top_k
            /\ args.score_threshold = score_threshold
            /\ ret.out.error = "" =>
                  ret.out.chunks =
                      SearchSimilarChunks(index, top_k, score_threshold,
                                          ret.file_path_filter, TRUE).chunks

----------------------------------------------------------------------------
(* Properties of ingest_file across calls *)

\* the step of a non-forced ingest_file that finds rows of the file in the
\* relational store and returns 0
SkipsIndexedFile ==
    /\ ing.pc = "check" /\ ing'.pc = "returned"
    /\ ~ing.force
    /\ OfFile(db, ing.file_path) # {}

\* C28: whenever a non-forced ingest_file skips a file because the relational
\* store already has chunk rows for it, all of the file's chunks are present
\* in the vector index, whatever calls and failures (embedding, a relational
\* insert, the vector upsert) came before.
C28_SkippedFileIsInVectorIndex ==
    [][SkipsIndexedFile => OfFile(db, ing.file_path) \subseteq qdrant]_vars

----------------------------------------------------------------------------
(* services/ingestion_service.py : IngestionService.ingest_textbook, and the
   IngestionJob of models/ingestion_job.py.  The pages of the sitemap are
   numbered 1..page_urls; page_url 0 stands for "N/A". *)

ErrorRecord(page_url, error_type) == [page_url |-> page_url, error_type |-> error_type]

\* IngestionJob(status=JobStatus.RUNNING), with the locals of ingest_textbook;
\* processed is what the "Processed page" log lines say: the pages counted and
\* the number of chunks of each
IngestionJob(at) ==
    [pc |-> at, status |-> "running", end_time |-> FALSE, pages_processed |-> 0,
     chunks_created |-> 0, errors_encountered |-> <<>>, page_urls |-> 0, page |-> 0,
     chunks |-> 0, sitemap_ok |-> FALSE, processed |-> <<>>]

MarkCompleted(j) == [j EXCEPT !.status = "completed", !.end_time = TRUE]

MarkFailed(j) ==
    [j EXCEPT !.status = "failed", !.end_time = TRUE,
              !.errors_encountered = Append(@, ErrorRecord(0, "JobFailure"))]

\* add_error that records nothing
AddNoError(j, page_url, error_type) == j

AddError(j, page_url, error_type) ==
    [j EXCEPT !.errors_encountered = Append(@, ErrorRecord(page_url, error_type))]

\* the for loop goes to the next page, or the job is marked completed and returned
NextPage(j) ==
    IF j.page < j.page_urls
    THEN [j EXCEPT !.pc = "crawl", !.page = @ + 1, !.chunks = 0]
    ELSE [MarkCompleted(j) EXCEPT !.pc = "returned"]

\* `continue` after an error of the current page
Continue(j, error_type) == NextPage(AddError(j, j.page, error_type))

JobInit == job = [IngestionJob("idle") EXCEPT !.status = "pending"]

\* line 222: the call
IngestTextbook ==
    /\ job.pc \in {"idle", "returned"}
    /\ job' = IngestionJob("sitemap")

\* lines 230-235 and 364-367: fetch_sitemap returns urls, raises IngestionError,
\* or raises another exception that the outer handler catches
FetchSitemap ==
    /\ job.pc = "sitemap"
    /\ \/ \E urls \in 0..MaxUrls :
             job' = NextPage([job EXCEPT !.page_urls = urls, !.sitemap_ok = TRUE])
       \/ \E error \in {"IngestionError", "Exception"} :
             job' = [MarkFailed(job) EXCEPT !.pc = "returned"]

\* lines 240-248 and 326-334: crawl_page returns the page, returns nothing or
\* a page without content, or raises IngestionError
CrawlPage ==
    /\ job.pc = "crawl"
    /\ \/ job' = [job EXCEPT !.pc = "chunk"]
       \/ job' = Continue(job, "EmptyContent")
       \/ \E error_type \in {"HTTPError", "ParseError", "IngestionError"} :
             job' = Continue(job, error_type)

\* lines 251-262 and 336-347: chunk_text returns chunks, returns none or raises
ChunkPage ==
    /\ job.pc = "chunk"
    /\ \/ \E n \in 1..MaxPageChunks : job' = [job EXCEPT !.pc = "embed", !.chunks = n]
       \/ job' = Continue(job, "ChunkingFailed")
       \/ job' = Continue(job, "UnexpectedError")

\* lines 264-277: cohere_service.embed returns the embeddings or raises
EmbedPage ==
    /\ job.pc = "embed"
    /\ \/ job' = [job EXCEPT !.pc = "construct"]
       \/ job' = Continue(job, "EmbeddingError")

\* lines 279-293 and 336-347: the DocumentChunk objects are made, or the model
\* rejects one and the outer handler of the loop catches the exception
ConstructChunks ==
    /\ job.pc = "construct"
    /\ \/ job' = [job EXCEPT !.pc = "upsert"]
       \/ job' = Continue(job, "UnexpectedError")

\* lines 295-324: upsert_vectors succeeds and the page is counted, or raises
UpsertPage ==
    /\ job.pc = "upsert"
    /\ \/ job' = NextPage([job EXCEPT !.chunks_created = @ + job.chunks,
                                      !.pages_processed = @ + 1,
                                      !.processed = Append(@, [page_url |-> job.page,
                                                               chunk_count |-> job.chunks])])
       \/ job' = Continue(job, "QdrantError")

JobNext ==
    \/ IngestTextbook
    \/ FetchSitemap
    \/ CrawlPage
    \/ ChunkPage
    \/ EmbedPage
    \/ ConstructChunks
    \/ UpsertPage

----------------------------------------------------------------------------
(* Properties of ingest_textbook *)

RECURSIVE ChunkCount(_)
ChunkCount(pages) ==
    IF pages = <<>> THEN 0 ELSE pages[1].chunk_count + ChunkCount(Tail(pages))

\* the pages that have an outcome: logged as processed, or with an error record
Outcomes ==
    [i \in 1..(Len(job.processed) + Len(job.errors_encountered)) |->
        IF i <= Len(job.processed) THEN job.processed[i].page_url
        ELSE job.errors_encountered[i - Len(job.processed)].page_url]

----------------------------------------------------------------------------
(* Properties of CitationAgent.generate_citations *)

\* the locator URLs of the chunks, each at its first occurrence only
RECURSIVE DistinctUrls(_, _)
DistinctUrls(source_chunks, seen) ==
    IF source_chunks = <<>> THEN <<>>
    ELSE LET url == BuildCitationUrl(source_chunks[1].file_path,
                                     source_chunks[1].section_anchor)
         IN  IF url \in seen THEN DistinctUrls(Tail(source_chunks), seen)
             ELSE <<url>> \o DistinctUrls(Tail(source_chunks), seen \cup {url})

\* C30: generate_citations emits exactly one citation for every distinct
\* locator URL (file_path plus section anchor) among the source chunks, in
\* first-seen order: a chunk is dropped only when an earlier chunk produced the
\* same URL, so chunks of different files that share an anchor keep their own
\* citations.
C30_OneCitationPerDistinctUrl ==
    app.op = "generate_citations" =>
        [k \in 1..Len(app.out) |-> app.out[k].url] = DistinctUrls(cands, {})

----------------------------------------------------------------------------

ChunkInit ==
    /\ pc = "idle"
    /\ text = <<>>
    /\ stack = <<>>
    /\ result = <<>>
    /\ heading = <<>>

ChunkNext ==
    \/ /\ pc = "idle"
       /\ \E ws \in [1..MaxWords -> Words], ss \in [1..MaxWords -> Separators],
             h \in Headings : ChunkText(Interleave(ws, ss, 1), h)
    \/ RecursiveSplitEnter
    \/ RecursiveSplitLoop
    \/ ForceSplitLoop
    \/ Return

OtherInit ==
    ChunkInit /\ HeadInit /\ RetrInit /\ QueryInit /\ FuncInit /\ TextbookInit /\ IngestInit /\ RetryInit /\ LazyInit /\ JobInit

Init == OtherInit /\ index = <<>> /\ cands = <<>>

\* ChunkingService.chunk_text of services/chunking_service.py
Next == ChunkNext /\ UNCHANGED <<headVars, retrVars, queryVars, funcVars, textbookVars, index, cands, ingestVars, retryVars, lazyVars, jobVars>>

Spec == Init /\ [][Next]_vars

\* ChunkingService.chunk_content of services/chunking.py
HeadingNext == HeadNext /\ UNCHANGED <<chunkVars, retrVars, queryVars, funcVars, textbookVars, index, cands, ingestVars, retryVars, lazyVars, jobVars>>

HeadingSpec == Init /\ [][HeadingNext]_vars

\* the retrieve and search operations over any collection
IndexedInit == OtherInit /\ index \in Indexes /\ cands = <<>>

RetrievalNext ==
    RetrNext /\ UNCHANGED <<chunkVars, headVars, queryVars, funcVars, textbookVars, cands, ingestVars, retryVars, lazyVars, jobVars>>

RetrievalSpec == IndexedInit /\ [][RetrievalNext]_vars

\* GeminiRAGService.process_query over any collection
PipelineNext ==
    QueryNext /\ UNCHANGED <<chunkVars, headVars, retrVars, funcVars, textbookVars, cands, ingestVars, retryVars, lazyVars, jobVars>>

QuerySpec == IndexedInit /\ [][PipelineNext]_vars

\* the confidence and citation functions over any candidate list
CandidateInit == OtherInit /\ index = <<>> /\ cands \in CandidateLists

CitationNext ==
    FuncNext /\ UNCHANGED <<chunkVars, headVars, retrVars, queryVars, textbookVars, index, ingestVars, retryVars, lazyVars, jobVars>>

CitationSpec == CandidateInit /\ [][CitationNext]_vars

\* RAGService.query_textbook over any collection
CohereNext ==
    TextbookNext /\ UNCHANGED <<chunkVars, headVars, retrVars, queryVars, funcVars, cands, ingestVars, retryVars, lazyVars, jobVars>>

TextbookSpec == IndexedInit /\ [][CohereNext]_vars

\* ingest_file, one call after another
IngestionNext ==
    /\ IngestNext
    /\ UNCHANGED <<chunkVars, headVars, retrVars, queryVars, funcVars, textbookVars, index, cands, retryVars, lazyVars, jobVars>>

IngestionSpec == Init /\ [][IngestionNext]_vars

\* an operation under its retry decorator, one call after another
RetryingNext ==
    /\ RetryNext
    /\ UNCHANGED <<chunkVars, headVars, retrVars, queryVars, funcVars, textbookVars, index, cands, ingestVars, lazyVars, jobVars>>

RetrySpec == Init /\ [][RetryingNext]_vars

\* concurrent tasks calling the lazily-initialized accessors
AccessorNext ==
    /\ LazyNext
    /\ UNCHANGED <<chunkVars, headVars, retrVars, queryVars, funcVars, textbookVars, index, cands, ingestVars, retryVars, jobVars>>

AccessorSpec == Init /\ [][AccessorNext]_vars

\* the fallback path of extract_citations over candidates that may be blank
BlankInit == OtherInit /\ index = <<>> /\ cands \in BlankCandidateLists

UncitedNext ==
    /\ FallbackNext
    /\ UNCHANGED <<chunkVars, headVars, retrVars, queryVars, textbookVars, index, ingestVars, retryVars, lazyVars, jobVars>>

FallbackSpec == BlankInit /\ [][UncitedNext]_vars

\* IngestionService.ingest_textbook, one call after another
TextbookIngestionNext ==
    /\ JobNext
    /\ UNCHANGED <<chunkVars, headVars, retrVars, queryVars, funcVars, textbookVars, index, cands, ingestVars, retryVars, lazyVars>>

JobSpec == Init /\ [][TextbookIngestionNext]_vars

====
